---- MODULE Spec2Model ----
(***************************************************************************)
(* Model of the Tauri command handlers of src-tauri/src/lib.rs: get_tenant, *)
(* put_tenant, query_venues, querywNetworks and query_aps.  Each handler    *)
(* builds one request, hands it to reqwest's send(), and reduces the        *)
(* outcome to Result<String, String>.                                       *)
(*                                                                          *)
(* The model stops at the boundary between lib.rs and the HTTP client: a    *)
(* request is what the handler gives the RequestBuilder, and the network    *)
(* events are the values send().await and text().await can return.          *)
(* Strings are TLA+ strings, format!() is concatenation.                    *)
(***************************************************************************)
EXTENDS Integers, Sequences, FiniteSets, TLC

\* Largest "page" number of a query payload the callers pass in.
MaxPage == 1

\* The concurrently running invocations (the host spawns one task per command).
Calls == {"c1", "c2"}

Ops == {"get_tenant", "put_tenant", "query_venues", "querywNetworks", "query_aps"}

QueryOps == {"query_venues", "querywNetworks", "query_aps"}

-----------------------------------------------------------------------------
(* serde_json::Value *)

JNull == [kind |-> "Null", text |-> "", members |-> <<>>]

JNumber(t) == [kind |-> "Number", text |-> t, members |-> <<>>]

JString(t) == [kind |-> "String", text |-> t, members |-> <<>>]

\* members: the map's entries in iteration order, each [key, value]
JObject(m) == [kind |-> "Object", text |-> "", members |-> m]

Member(k, v) == [key |-> k, value |-> v]

RECURSIVE to_vec(_)
RECURSIVE to_vec_members(_)
\* the entries of an object, comma separated, compact form
to_vec_members(m) ==
    IF m = <<>> THEN ""
    ELSE "\"" \o Head(m).key \o "\":" \o to_vec(Head(m).value)
         \o (IF Tail(m) = <<>> THEN "" ELSE "," \o to_vec_members(Tail(m)))

\* serde_json::to_vec, as RequestBuilder::json uses it
to_vec(v) ==
    CASE v.kind = "Null" -> "null"
      [] v.kind = "Number" -> v.text
      [] v.kind = "String" -> "\"" \o v.text \o "\""
      [] v.kind = "Object" -> "{" \o to_vec_members(v.members) \o "}"

RECURSIVE to_string_pretty(_, _)
RECURSIVE pretty_members(_, _)
pretty_members(m, indent) ==
    IF m = <<>> THEN ""
    ELSE indent \o "  \"" \o Head(m).key \o "\": "
         \o to_string_pretty(Head(m).value, indent \o "  ")
         \o (IF Tail(m) = <<>> THEN "\n" ELSE ",\n" \o pretty_members(Tail(m), indent))

\* serde_json::to_string_pretty: two-space indent, one entry per line
to_string_pretty(v, indent) ==
    CASE v.kind = "Null" -> "null"
      [] v.kind = "Number" -> v.text
      [] v.kind = "String" -> "\"" \o v.text \o "\""
      [] v.kind = "Object" ->
            IF v.members = <<>> THEN "{}"
            ELSE "{\n" \o pretty_members(v.members, indent) \o indent \o "}"

-----------------------------------------------------------------------------
(* Inputs the host passes to the commands *)

Credentials ==
    { [api_url |-> "https://r1.example", tenant_id |-> "t1", token |-> "tokA"],
      [api_url |-> "https://r1.example", tenant_id |-> "t2", token |-> "tokA"],
      [api_url |-> "https://eu.example/", tenant_id |-> "t/3", token |-> "tokB"] }

Payloads ==
    { JObject(<<Member("page", JNumber(ToString(p)))>>) : p \in 1..MaxPage }
    \cup { JObject(<<Member("name", JString("acme")), Member("page", JNumber("1"))>>) }

\* what the server may answer and what the client library may report
Statuses == {200, 204, 404}

Bodies == {"not found", "{\"id\":1}"}

SendErrors == {"error sending request"}

TextErrors == {"error decoding response body"}

-----------------------------------------------------------------------------
(* Request construction *)

NoCall == [op |-> "none", api_url |-> "", tenant_id |-> "", token |-> "", data |-> JNull]

Header(n, v) == [name |-> n, value |-> v]

\* reqwest::Client::get / post followed by the .header() calls
Request(method, url, headers, body) ==
    [method |-> method, url |-> url, headers |-> headers, body |-> body]

\* Json, had the handler wrapped the payload as {"data": payload}
JsonWrapped(v) == <<to_vec(JObject(<<Member("data", v)>>))>>

\* RequestBuilder::json: the serialized value, one element; <<>> is "no body"
Json(v) == <<to_vec(v)>>

Bearer(token) == "Bearer " \o token

\* TenantUrl, had the handler trimmed a trailing slash of the base URL
TenantUrlNormalized(api_url, tenant_id) ==
    (IF Len(api_url) > 0 /\ SubSeq(api_url, Len(api_url), Len(api_url)) = "/"
     THEN SubSeq(api_url, 1, Len(api_url) - 1) ELSE api_url)
    \o "/tenants/" \o tenant_id

TenantUrl(api_url, tenant_id) == api_url \o "/tenants/" \o tenant_id

MspCustomersUrl(api_url) == api_url \o "/mspCustomers"

VenuesQueryUrl(api_url) == api_url \o "/venues/query"

WifiNetworksQueryUrl(api_url) == api_url \o "/wifiNetworks/query"

ApsQueryUrl(api_url) == api_url \o "/venues/aps/query"

-----------------------------------------------------------------------------
(* Response reduction *)

Ok(body) == [tag |-> "Ok", val |-> body]

Err(message) == [tag |-> "Err", val |-> message]

NoText == [tag |-> "None", val |-> ""]

\* http::StatusCode::canonical_reason
CanonicalReason(status) ==
    CASE status = 200 -> "OK"
      [] status = 204 -> "No Content"
      [] status = 400 -> "Bad Request"
      [] status = 401 -> "Unauthorized"
      [] status = 404 -> "Not Found"
      [] status = 500 -> "Internal Server Error"
      [] OTHER -> "<unknown status code>"

\* impl Display for http::StatusCode: "{code} {reason}"
StatusDisplay(status) == ToString(status) \o " " \o CanonicalReason(status)

\* IsSuccess, had the handler compared the status with 200
IsSuccessOnly200(status) == status = 200

\* StatusCode::is_success
IsSuccess(status) == status >= 200 /\ status < 300

\* RequestFailed, had the handler returned the library's text alone
RequestFailedBare(e) == e

RequestFailed(e) == "Request failed: " \o e

FailedToReadResponse(e) == "Failed to read response: " \o e

HttpError(status, body) == "HTTP " \o StatusDisplay(status) \o ": " \o body

\* the if/else that ends every handler
Reduce(status, body) ==
    IF IsSuccess(status) THEN Ok(body) ELSE Err(HttpError(status, body))

-----------------------------------------------------------------------------
VARIABLES
    pc,         \* per call: "idle", "send", "text" or "returned"
    call,       \* per call: the command and its arguments
    sends,      \* per call: the requests it handed to send(), in order
    sendErr,    \* per call: the error send().await returned, "" if none
    status,     \* per call: response.status(), 0 while no response is there
    text,       \* per call: what response.text().await returned
    results,    \* per call: the values it returned to the host, in order
    stdout      \* the lines println! wrote, process wide

vars == <<pc, call, sends, sendErr, status, text, results, stdout>>

Init ==
    /\ pc = [c \in Calls |-> "idle"]
    /\ call = [c \in Calls |-> NoCall]
    /\ sends = [c \in Calls |-> <<>>]
    /\ sendErr = [c \in Calls |-> ""]
    /\ status = [c \in Calls |-> 0]
    /\ text = [c \in Calls |-> NoText]
    /\ results = [c \in Calls |-> <<>>]
    /\ stdout = <<>>

\* the handler runs up to its .send().await
Start(c, op, cred, data, request, lines) ==
    /\ pc[c] = "idle"
    /\ call' = [call EXCEPT ![c] = [op |-> op, api_url |-> cred.api_url,
                                    tenant_id |-> cred.tenant_id,
                                    token |-> cred.token, data |-> data]]
    /\ stdout' = stdout \o lines
    /\ sends' = [sends EXCEPT ![c] = Append(@, request)]
    /\ pc' = [pc EXCEPT ![c] = "send"]
    /\ UNCHANGED <<sendErr, status, text, results>>

\* lib.rs 11-17: the request get_tenant builds
GetTenantRequest(api_url, tenant_id, token) ==
    Request("GET", TenantUrl(api_url, tenant_id),
            <<Header("Authorization", Bearer(token)),
              Header("Accept", "application/json")>>,
            <<>>)

\* PutTenantRequest, had the handler kept the per-tenant PUT variant
PutTenantRequestVariantB(api_url, tenant_id, token, tenant_data) ==
    Request("PUT", TenantUrl(api_url, tenant_id),
            <<Header("Authorization", Bearer(token)),
              Header("Content-Type", "application/json")>>,
            Json(tenant_data))

\* lib.rs 35-50: the request put_tenant builds; body_data is tenant_data moved
PutTenantRequest(api_url, tenant_id, token, tenant_data) ==
    Request("POST", MspCustomersUrl(api_url),
            <<Header("Authorization", Bearer(token)),
              Header("Content-Type", "application/json")>>,
            Json(tenant_data))

\* QueryVenuesRequest, had the headers lived in a map shared by the calls:
\* the credentials of a call started earlier stay in it
QueryVenuesRequestShared(api_url, tenant_id, token, query_data) ==
    LET earlier == {d \in Calls : call[d].op # "none"}
        first == IF earlier = {} THEN NoCall ELSE call[CHOOSE d \in earlier : TRUE]
    IN  Request("POST", VenuesQueryUrl(api_url),
                <<Header("Authorization",
                         Bearer(IF earlier = {} THEN token ELSE first.token)),
                  Header("Content-Type", "application/json"),
                  Header("x-rks-tenantid",
                         IF earlier = {} THEN tenant_id ELSE first.tenant_id)>>,
                Json(query_data))

QueryVenuesRequest(api_url, tenant_id, token, query_data) ==
    Request("POST", VenuesQueryUrl(api_url),
            <<Header("Authorization", Bearer(token)),
              Header("Content-Type", "application/json"),
              Header("x-rks-tenantid", tenant_id)>>,
            Json(query_data))

QueryWNetworksRequest(api_url, tenant_id, token, query_data) ==
    Request("POST", WifiNetworksQueryUrl(api_url),
            <<Header("Authorization", Bearer(token)),
              Header("Content-Type", "application/json"),
              Header("x-rks-tenantid", tenant_id)>>,
            Json(query_data))

\* QueryApsRequest, had the handler left the tenant header out
QueryApsRequestUnscoped(api_url, tenant_id, token, query_data) ==
    Request("POST", ApsQueryUrl(api_url),
            <<Header("Authorization", Bearer(token)),
              Header("Content-Type", "application/json")>>,
            Json(query_data))

QueryApsRequest(api_url, tenant_id, token, query_data) ==
    Request("POST", ApsQueryUrl(api_url),
            <<Header("Authorization", Bearer(token)),
              Header("Content-Type", "application/json"),
              Header("x-rks-tenantid", tenant_id)>>,
            Json(query_data))

get_tenant(c) ==
    \E cred \in Credentials :
        Start(c, "get_tenant", cred, JNull,
              GetTenantRequest(cred.api_url, cred.tenant_id, cred.token),
              <<>>)

put_tenant(c) ==
    \E cred \in Credentials, tenant_data \in Payloads :
        Start(c, "put_tenant", cred, tenant_data,
              PutTenantRequest(cred.api_url, cred.tenant_id, cred.token, tenant_data),
              << "Request URL: " \o MspCustomersUrl(cred.api_url),
                 "Tenant Data: " \o to_string_pretty(tenant_data, ""),
                 "Request Body: " \o to_string_pretty(tenant_data, "") >>)

query_venues(c) ==
    \E cred \in Credentials, query_data \in Payloads :
        Start(c, "query_venues", cred, query_data,
              QueryVenuesRequest(cred.api_url, cred.tenant_id, cred.token, query_data),
              << "Venues Query URL: " \o VenuesQueryUrl(cred.api_url),
                 "Query Data: " \o to_string_pretty(query_data, "") >>)

querywNetworks(c) ==
    \E cred \in Credentials, query_data \in Payloads :
        Start(c, "querywNetworks", cred, query_data,
              QueryWNetworksRequest(cred.api_url, cred.tenant_id, cred.token, query_data),
              << "Wifi Networks Query URL: " \o WifiNetworksQueryUrl(cred.api_url),
                 "Query Data: " \o to_string_pretty(query_data, "") >>)

query_aps(c) ==
    \E cred \in Credentials, query_data \in Payloads :
        Start(c, "query_aps", cred, query_data,
              QueryApsRequest(cred.api_url, cred.tenant_id, cred.token, query_data),
              << "APs Query URL: " \o ApsQueryUrl(cred.api_url),
                 "Query Data: " \o to_string_pretty(query_data, "") >>)

\* SendErr, had the handler sent the request again after a failure
SendErrRetry(c) ==
    /\ pc[c] = "send"
    /\ \E e \in SendErrors : sendErr' = [sendErr EXCEPT ![c] = e]
    /\ sends' = [sends EXCEPT ![c] = Append(@, @[1])]
    /\ UNCHANGED <<pc, call, status, text, results, stdout>>

\* SendErr, had the handler ignored the failure and gone on to read a body
SendErrSwallowed(c) ==
    /\ pc[c] = "send"
    /\ \E e \in SendErrors : sendErr' = [sendErr EXCEPT ![c] = e]
    /\ pc' = [pc EXCEPT ![c] = "text"]
    /\ UNCHANGED <<call, sends, status, text, results, stdout>>

\* send().await is Err(e): map_err and `?` return at once
SendErr(c) ==
    /\ pc[c] = "send"
    /\ \E e \in SendErrors :
          /\ sendErr' = [sendErr EXCEPT ![c] = e]
          /\ results' = [results EXCEPT ![c] = Append(@, Err(RequestFailed(e)))]
    /\ pc' = [pc EXCEPT ![c] = "returned"]
    /\ UNCHANGED <<call, sends, status, text, stdout>>

\* send().await is Ok(response): the status is taken, text() is awaited
SendOk(c) ==
    /\ pc[c] = "send"
    /\ \E s \in Statuses : status' = [status EXCEPT ![c] = s]
    /\ pc' = [pc EXCEPT ![c] = "text"]
    /\ UNCHANGED <<call, sends, sendErr, text, results, stdout>>

\* text().await is Err(e): map_err and `?` return at once
TextErr(c) ==
    /\ pc[c] = "text"
    /\ \E e \in TextErrors :
          /\ text' = [text EXCEPT ![c] = Err(e)]
          /\ results' = [results EXCEPT ![c] = Append(@, Err(FailedToReadResponse(e)))]
    /\ pc' = [pc EXCEPT ![c] = "returned"]
    /\ UNCHANGED <<call, sends, sendErr, status, stdout>>

\* text().await is Ok(body): the handler returns by the status
TextOk(c) ==
    /\ pc[c] = "text"
    /\ \E b \in Bodies :
          /\ text' = [text EXCEPT ![c] = Ok(b)]
          /\ results' = [results EXCEPT ![c] = Append(@, Reduce(status[c], b))]
    /\ pc' = [pc EXCEPT ![c] = "returned"]
    /\ UNCHANGED <<call, sends, sendErr, status, stdout>>

Next ==
    \E c \in Calls :
        \/ get_tenant(c)
        \/ put_tenant(c)
        \/ query_venues(c)
        \/ querywNetworks(c)
        \/ query_aps(c)
        \/ SendErr(c)
        \/ SendOk(c)
        \/ TextErr(c)
        \/ TextOk(c)

Spec == Init /\ [][Next]_vars

TypeOK ==
    /\ pc \in [Calls -> {"idle", "send", "text", "returned"}]
    /\ status \in [Calls -> Statuses \cup {0}]
    /\ sendErr \in [Calls -> SendErrors \cup {""}]
    /\ \A c \in Calls : call[c].op \in Ops \cup {"none"}
-----------------------------------------------------------------------------
(* Vocabulary of the properties *)

Active(c) == pc[c] # "idle"

Returned(c) == pc[c] = "returned"

StartsWith(s, prefix) ==
    Len(s) >= Len(prefix) /\ SubSeq(s, 1, Len(prefix)) = prefix

EndsWith(s, suffix) ==
    Len(s) >= Len(suffix) /\ SubSeq(s, Len(s) - Len(suffix) + 1, Len(s)) = suffix

HasHeader(r, n) == \E i \in DOMAIN r.headers : r.headers[i].name = n

\* r carries header n exactly once, with value v
HasOnly(r, n, v) ==
    Cardinality({i \in DOMAIN r.headers : r.headers[i].name = n}) = 1
    /\ \A i \in DOMAIN r.headers : r.headers[i].name = n => r.headers[i].value = v

\* the JSON documents a receiver may find in a body
JsonUniverse ==
    Payloads
    \cup {JObject(<<Member("data", p)>>) : p \in Payloads}
    \cup {JObject(<<>>), JNull}
    \cup {JObject(<<Member("page", JNumber(ToString(p)))>>) : p \in 1..(MaxPage + 1)}

JInvalid == [kind |-> "Invalid", text |-> "", members |-> <<>>]

\* the JSON value a body text denotes
from_slice(t) ==
    LET denoted == {v \in JsonUniverse : to_vec(v) = t}
    IN  IF denoted = {} THEN JInvalid ELSE CHOOSE v \in denoted : TRUE

\* a response with a status outside 200..299 whose text was read
NonSuccessRead(c) ==
    Returned(c) /\ text[c].tag = "Ok" /\ ~(status[c] >= 200 /\ status[c] <= 299)

\* a response with a status in 200..299 whose text was read
SuccessRead(c) ==
    Returned(c) /\ text[c].tag = "Ok" /\ status[c] >= 200 /\ status[c] <= 299

-----------------------------------------------------------------------------
(* C1: a non-2xx response with status S and text B makes every operation   *)
(* return Failure("HTTP " + S as a number + ": " + B), nothing else between *)
(* the number and the colon.                                               *)
C1_NumericStatusMessage ==
    \A c \in Calls :
        NonSuccessRead(c) =>
            results[c] = << [tag |-> "Err",
                             val |-> "HTTP " \o ToString(status[c]) \o ": " \o text[c].val] >>

(* C2: every Failure starts with "Request failed: " or with "HTTP ".        *)
C2_TwoKindsOnly ==
    \A c \in Calls : \A i \in DOMAIN results[c] :
        results[c][i].tag = "Err" =>
            \/ StartsWith(results[c][i].val, "Request failed: ")
            \/ StartsWith(results[c][i].val, "HTTP ")

(* C2, amended: every Failure is of one of three kinds, by the event that   *)
(* ended the call: "Request failed: " when send failed, "Failed to read     *)
(* response: " when the response came but its text could not be read,       *)
(* "HTTP " when the text was read and the status is not 2xx.                *)
C2_ThreeKinds ==
    \A c \in Calls : \A i \in DOMAIN results[c] :
        results[c][i].tag = "Err" =>
            \/ sendErr[c] # "" /\ StartsWith(results[c][i].val, "Request failed: ")
            \/ text[c].tag = "Err" /\ StartsWith(results[c][i].val, "Failed to read response: ")
            \/ NonSuccessRead(c) /\ StartsWith(results[c][i].val, "HTTP ")

C2_Witness ==
    \E c, d \in Calls :
        /\ Returned(c) /\ text[c].tag = "Err"
        /\ results[c] = << [tag |-> "Err",
                            val |-> "Failed to read response: error decoding response body"] >>
        /\ Returned(d) /\ sendErr[d] # "" /\ results[d][1].tag = "Err"

(* C3: a 2xx response whose text B was read makes every operation return    *)
(* Success(B), B unchanged, and never a Failure.                            *)
C3_SuccessBodyUnchanged ==
    \A c \in Calls :
        SuccessRead(c) => results[c] = << [tag |-> "Ok", val |-> text[c].val] >>

C3_Witness ==
    \E c, d \in Calls :
        /\ SuccessRead(c) /\ status[c] = 200 /\ text[c].val = "{\"id\":1}"
        /\ results[c] = << [tag |-> "Ok", val |-> "{\"id\":1}"] >>
        /\ SuccessRead(d) /\ status[d] = 204 /\ text[d].val = "not found"
        /\ results[d] = << [tag |-> "Ok", val |-> "not found"] >>

(* C4: when send fails, the operation returns Failure("Request failed: " +  *)
(* cause) in that very step: no status is looked at, no body is read, no    *)
(* Success is returned.                                                     *)
C4_TransportFailure ==
    \A c \in Calls :
        sendErr[c] # "" =>
            /\ Returned(c)
            /\ results[c] = << [tag |-> "Err", val |-> "Request failed: " \o sendErr[c]] >>
            /\ status[c] = 0
            /\ text[c].tag = "None"

C4_Witness ==
    \E c \in Calls :
        /\ sendErr[c] = "error sending request"
        /\ results[c] = << [tag |-> "Err", val |-> "Request failed: error sending request"] >>

(* C5: every call hands exactly one request to send() and returns exactly   *)
(* one result: none before it is started, one request while it runs, and    *)
(* one request and one result once it has returned, whatever the outcome.   *)
C5_OneSendOneResult ==
    \A c \in Calls :
        /\ Len(sends[c]) = (IF Active(c) THEN 1 ELSE 0)
        /\ Len(results[c]) = (IF Returned(c) THEN 1 ELSE 0)

C5_Witness ==
    \E c, d \in Calls :
        /\ Returned(c) /\ sendErr[c] # "" /\ Len(sends[c]) = 1 /\ Len(results[c]) = 1
        /\ NonSuccessRead(d) /\ Len(sends[d]) = 1 /\ Len(results[d]) = 1

(* C6: with two calls in flight, each request is built from its own call's  *)
(* arguments only (URL, Authorization, x-rks-tenantid, body) and each       *)
(* result from its own call's response only; a credential or payload that   *)
(* differs between the calls never shows up in the other call.              *)
OwnRequest(c) ==
    LET r == sends[c][1]
    IN  /\ StartsWith(r.url, call[c].api_url \o "/")
        /\ HasOnly(r, "Authorization", "Bearer " \o call[c].token)
        /\ HasHeader(r, "x-rks-tenantid") => HasOnly(r, "x-rks-tenantid", call[c].tenant_id)
        /\ r.body # <<>> => r.body = <<to_vec(call[c].data)>>

OwnResult(c) ==
    LET res == results[c][1]
    IN  \/ sendErr[c] # "" /\ res.tag = "Err" /\ EndsWith(res.val, ": " \o sendErr[c])
        \/ text[c].tag = "Err" /\ res.tag = "Err" /\ EndsWith(res.val, ": " \o text[c].val)
        \/ SuccessRead(c) /\ res.tag = "Ok" /\ res.val = text[c].val
        \/ /\ NonSuccessRead(c) /\ res.tag = "Err"
           /\ StartsWith(res.val, "HTTP " \o ToString(status[c]))
           /\ EndsWith(res.val, ": " \o text[c].val)

NoLeak(c, d) ==
    LET r == sends[c][1]
    IN  /\ call[d].token # call[c].token =>
              \A i \in DOMAIN r.headers : r.headers[i].value # "Bearer " \o call[d].token
        /\ call[d].tenant_id # call[c].tenant_id =>
              \A i \in DOMAIN r.headers : r.headers[i].value # call[d].tenant_id
        /\ call[d].api_url # call[c].api_url => ~StartsWith(r.url, call[d].api_url)
        /\ call[d].data # call[c].data => r.body # <<to_vec(call[d].data)>>

C6_NoCrossTalk ==
    \A c \in Calls :
        /\ Active(c) => OwnRequest(c)
        /\ Returned(c) => OwnResult(c)
        /\ \A d \in Calls \ {c} : (Active(c) /\ Active(d)) => NoLeak(c, d)

\* c1 printed first and still waits for its response, c2 came later with
\* other credentials and payload and has its result already
C6_Witness ==
    /\ call["c1"].op = "query_venues" /\ call["c2"].op = "query_venues"
    /\ stdout # <<>> /\ stdout[1] = "Venues Query URL: " \o call["c1"].api_url \o "/venues/query"
    /\ call["c1"].token # call["c2"].token
    /\ call["c1"].tenant_id # call["c2"].tenant_id
    /\ call["c1"].data # call["c2"].data
    /\ pc["c1"] = "send"
    /\ SuccessRead("c2")

(* C7: get_tenant issues a GET to exactly api_url + "/tenants/" + tenant_id *)
(* (slashes kept, tenant_id not encoded) with Authorization "Bearer " +     *)
(* token.                                                                   *)
C7_GetTenantRequest ==
    \A c \in Calls :
        (Active(c) /\ call[c].op = "get_tenant") =>
            /\ sends[c][1].method = "GET"
            /\ sends[c][1].url = call[c].api_url \o "/tenants/" \o call[c].tenant_id
            /\ HasOnly(sends[c][1], "Authorization", "Bearer " \o call[c].token)

C7_Witness ==
    \E c \in Calls :
        /\ Active(c) /\ call[c].op = "get_tenant"
        /\ call[c].api_url = "https://eu.example/" /\ call[c].tenant_id = "t/3"
        /\ sends[c][1].url = "https://eu.example//tenants/t/3"

(* C8: a query-style operation sends a body that, read as JSON, is the      *)
(* payload it was given: nothing added, removed, renamed or wrapped; the    *)
(* payload is printed before the send and sent all the same.                *)
C8_QueryBodyIsPayload ==
    \A c \in Calls :
        (Active(c) /\ call[c].op \in QueryOps) =>
            /\ Len(sends[c][1].body) = 1
            /\ from_slice(sends[c][1].body[1]) = call[c].data

C8_Witness ==
    \E c \in Calls :
        /\ Active(c) /\ call[c].op = "query_aps"
        /\ sends[c][1].body = << "{\"name\":\"acme\",\"page\":1}" >>
        /\ \E i \in DOMAIN stdout :
              stdout[i] = "Query Data: {\n  \"name\": \"acme\",\n  \"page\": 1\n}"

(* C9: x-rks-tenantid is sent, once and with the call's tenant_id, by the   *)
(* three query operations, each a POST to its own path, and by no request   *)
(* of get_tenant or put_tenant.                                             *)
QueryPath(op) ==
    CASE op = "query_venues" -> "/venues/query"
      [] op = "querywNetworks" -> "/wifiNetworks/query"
      [] op = "query_aps" -> "/venues/aps/query"

C9_TenantHeaderScope ==
    \A c \in Calls : \A i \in DOMAIN sends[c] :
        /\ call[c].op \in QueryOps =>
              /\ sends[c][i].method = "POST"
              /\ sends[c][i].url = call[c].api_url \o QueryPath(call[c].op)
              /\ HasOnly(sends[c][i], "x-rks-tenantid", call[c].tenant_id)
        /\ call[c].op \in {"get_tenant", "put_tenant"} =>
              ~HasHeader(sends[c][i], "x-rks-tenantid")

C9_Witness ==
    \E c, d \in Calls :
        /\ Active(c) /\ call[c].op = "query_aps"
        /\ HasOnly(sends[c][1], "x-rks-tenantid", "t/3")
        /\ Active(d) /\ call[d].op = "put_tenant"
        /\ ~HasHeader(sends[d][1], "x-rks-tenantid")

(* C10: put_tenant POSTs tenant_data, not wrapped, to api_url +             *)
(* "/mspCustomers"; tenant_id plays no part: two put_tenant calls that      *)
(* differ in tenant_id alone send equal requests and, on equal responses,   *)
(* return equal results; no operation issues a PUT to the tenant URL.       *)
SameButTenant(c, d) ==
    /\ call[c].op = "put_tenant" /\ call[d].op = "put_tenant"
    /\ call[c].api_url = call[d].api_url
    /\ call[c].token = call[d].token
    /\ call[c].data = call[d].data

SameResponse(c, d) ==
    /\ Returned(c) /\ Returned(d)
    /\ sendErr[c] = sendErr[d] /\ status[c] = status[d] /\ text[c] = text[d]

C10_PutTenantIgnoresTenantId ==
    /\ \A c \in Calls :
          (Active(c) /\ call[c].op = "put_tenant") =>
              /\ sends[c][1].method = "POST"
              /\ sends[c][1].url = call[c].api_url \o "/mspCustomers"
              /\ Len(sends[c][1].body) = 1
              /\ from_slice(sends[c][1].body[1]) = call[c].data
    /\ \A c, d \in Calls :
          SameButTenant(c, d) =>
              /\ sends[c] = sends[d]
              /\ SameResponse(c, d) => results[c] = results[d]
    /\ \A c \in Calls : \A i \in DOMAIN sends[c] :
          ~(/\ sends[c][i].method = "PUT"
            /\ sends[c][i].url = call[c].api_url \o "/tenants/" \o call[c].tenant_id)

C10_Witness ==
    /\ SameButTenant("c1", "c2")
    /\ call["c1"].tenant_id # call["c2"].tenant_id
    /\ SameResponse("c1", "c2")
    /\ status["c1"] = 200
    /\ sends["c1"] = sends["c2"]
    /\ results["c1"] = results["c2"]
====
